---------------------------- MODULE Spec2Model ----------------------------
(***************************************************************************)
(* Verification model of test-assets/moneymatters.cpp: a disjoint-set      *)
(* forest (find with full path compression, nodeUnion by rank, query) and  *)
(* the zero-sum check done by main over the final forest; and of           *)
(* test-assets/ants.cpp, a second program of its own.                      *)
(*                                                                         *)
(* A Node* is modelled by the index of the node it points to (nodes[i] is  *)
(* the i-th allocation of main); BAD is a pointer to no node.              *)
(***************************************************************************)
EXTENDS Integers, FiniteSets, Sequences, TLC

\* Bounds of the model.
MaxN == 4          \* largest forest a client of the operations builds
MaxEntities == 3   \* largest entity count n read by main
MaxM == 2          \* largest number m of union requests read by main
MaxValidN == 4     \* largest n read by main on well-formed input
MaxValidM == 3     \* largest m read by main on well-formed input
MaxCases == 2      \* largest number N of test cases read by ants.cpp
MaxAnts == 2       \* largest number n of ants of a test case
MaxLen == 2        \* largest pole length l and largest position read

\* int is 32 bits wide.
MaxInt == 2147483647
MinInt == (-2147483647) - 1

\* The money values main may read for an entity.
Values == {MinInt, -1, 0, 1}

\* The money values of the runs of main on well-formed input.
ValidValues == {MinInt, 1}

\* A pointer that refers to no Node (what an out-of-bounds read of nodes[]
\* may yield besides the address of some node).
BAD == -1

VARIABLES
    n,        \* number of entities
    m,        \* number of union requests
    parent,   \* parent[x]: Node::parent of node x
    rank,     \* rank[x]:   Node::rank of node x
    money,    \* money[x]:  Node::money of node x
    pc,       \* position of the program
    i,        \* loop counter of main
    sums,     \* unordered_map<Node*, int> sums of main
    todo,     \* keys of sums the final loop has not inspected yet
    out,      \* what was written to cout
    last,     \* the last call made: operation, index arguments, result
    closure,  \* closure[x]: least node related to x by the closure of the
              \* valid pairs main has requested so far
    badIdx,   \* main has read an index outside [0, n)
    traps,    \* the build traps on signed overflow (it wraps around if not)
    sim       \* the process of ants.cpp: position, locals, output

vars == <<n, m, parent, rank, money, pc, i, sums, todo, out, last, closure,
          badIdx, traps, sim>>

\* The process of ants.cpp before it is started.
\* oob records that an element outside the storage of arr has been read.
SimIdle == [pc |-> "idle", arr |-> << >>, N |-> 0, i |-> 0, l |-> 0, n |-> 0,
            ants |-> << >>, shortestT |-> 0, longestT |-> 0, out |-> << >>,
            oob |-> FALSE]

Nodes == 0 .. (n - 1)

\* Indices main may read: the valid ones and one outside [0, n).
Idx == 0 .. n

\* nodes[idx]: the node itself for a valid index; reading outside the array
\* is undefined and yields the address of any node or a pointer to none.
NodesAt(idx) == IF idx \in Nodes THEN {idx} ELSE Nodes \cup {BAD}

-----------------------------------------------------------------------------
(* The forest operations, as functions of the forest they act on.          *)

\* find without its recursion: the argument's parent is returned as found.
findParentOnly(p, x) == [parent |-> p, ret |-> p[x]]

\* find that returns its argument and follows no link.
findSelf(p, x) == [parent |-> p, ret |-> x]

\* find that returns the root and rewrites no parent link.
RECURSIVE findNoCompress(_, _)
findNoCompress(p, x) ==
    IF p[x] # x
    THEN [parent |-> p, ret |-> findNoCompress(p, p[x]).ret]
    ELSE [parent |-> p, ret |-> x]

\* Node* find(Node* x): recursive lookup with full path compression.
RECURSIVE find(_, _)
find(p, x) ==
    IF p[x] # x
    THEN LET r == find(p, p[x])
         IN  [parent |-> [r.parent EXCEPT ![x] = r.ret], ret |-> r.ret]
    ELSE [parent |-> p, ret |-> p[x]]

\* nodeUnion that links b itself, not its root, under the root of a.
nodeUnionAttachArg(p, r, a, b) ==
    LET fa == find(p, a)
        fb == find(fa.parent, b)
    IN  IF fa.ret = fb.ret
        THEN [parent |-> fb.parent, rank |-> r, merged |-> 0]
        ELSE [parent |-> [fb.parent EXCEPT ![b] = fa.ret],
              rank   |-> IF r[fa.ret] = r[fb.ret]
                         THEN [r EXCEPT ![fa.ret] = @ + 1]
                         ELSE r,
              merged |-> 1]

\* nodeUnion without the early return for two nodes of one group.
nodeUnionNoEarlyReturn(p, r, a, b) ==
    LET fa    == find(p, a)
        fb    == find(fa.parent, b)
        swap  == r[fa.ret] < r[fb.ret]
        rootA == IF swap THEN fb.ret ELSE fa.ret
        rootB == IF swap THEN fa.ret ELSE fb.ret
    IN  [parent |-> [fb.parent EXCEPT ![rootB] = rootA],
         rank   |-> IF r[rootA] = r[rootB]
                    THEN [r EXCEPT ![rootA] = @ + 1]
                    ELSE r,
         merged |-> IF fa.ret = fb.ret THEN 0 ELSE 1]

\* nodeUnion without the swap: the root of b always goes under the root of a.
nodeUnionNoSwap(p, r, a, b) ==
    LET fa == find(p, a)
        fb == find(fa.parent, b)
    IN  IF fa.ret = fb.ret
        THEN [parent |-> fb.parent, rank |-> r, merged |-> 0]
        ELSE [parent |-> [fb.parent EXCEPT ![fb.ret] = fa.ret],
              rank   |-> IF r[fa.ret] = r[fb.ret]
                         THEN [r EXCEPT ![fa.ret] = @ + 1]
                         ELSE r,
              merged |-> 1]

\* nodeUnion that breaks a tie of ranks the other way: the root of a goes
\* under the root of b, whose rank grows.
nodeUnionTieSecond(p, r, a, b) ==
    LET fa == find(p, a)
        fb == find(fa.parent, b)
    IN  IF fa.ret = fb.ret
        THEN [parent |-> fb.parent, rank |-> r, merged |-> 0]
        ELSE LET swap  == r[fa.ret] <= r[fb.ret]
                 rootA == IF swap THEN fb.ret ELSE fa.ret
                 rootB == IF swap THEN fa.ret ELSE fb.ret
             IN  [parent |-> [fb.parent EXCEPT ![rootB] = rootA],
                  rank   |-> IF r[rootA] = r[rootB]
                             THEN [r EXCEPT ![rootA] = @ + 1]
                             ELSE r,
                  merged |-> 1]

\* void nodeUnion(Node* a, Node* b).  merged records which way the call
\* returned: 0 for the early return, 1 after the merge.
nodeUnion(p, r, a, b) ==
    LET fa     == find(p, a)
        fb     == find(fa.parent, b)
        rootA0 == fa.ret
        rootB0 == fb.ret
        p2     == fb.parent
    IN  IF rootA0 = rootB0
        THEN [parent |-> p2, rank |-> r, merged |-> 0]
        ELSE LET swap  == r[rootA0] < r[rootB0]
                 rootA == IF swap THEN rootB0 ELSE rootA0
                 rootB == IF swap THEN rootA0 ELSE rootB0
             IN  [parent |-> [p2 EXCEPT ![rootB] = rootA],
                  rank   |-> IF r[rootA] = r[rootB]
                             THEN [r EXCEPT ![rootA] = @ + 1]
                             ELSE r,
                  merged |-> 1]

\* query that compares the root of a with b itself.
queryNoFindB(p, a, b, aFirst) ==
    LET fa == find(p, a)
    IN  [parent |-> fa.parent, ret |-> fa.ret = b]

\* bool query(Node* a, Node* b).  The two finds are indeterminately
\* sequenced: aFirst tells which one the build evaluates first.
query(p, a, b, aFirst) ==
    IF aFirst
    THEN LET fa == find(p, a)
             fb == find(fa.parent, b)
         IN  [parent |-> fb.parent, ret |-> fa.ret = fb.ret]
    ELSE LET fb == find(p, b)
             fa == find(fb.parent, a)
         IN  [parent |-> fa.parent, ret |-> fa.ret = fb.ret]

-----------------------------------------------------------------------------
(* State after construction: n nodes, each its own parent, rank 0.         *)

NoCall == [op |-> "none", a |-> 0, b |-> 0, ret |-> 0]

\* Construction with Node::parent pointing at the previous allocation.
InitForestChained(maxn) ==
    /\ n \in 0 .. maxn
    /\ parent = [x \in Nodes |-> IF x = 0 THEN 0 ELSE x - 1]
    /\ rank = [x \in Nodes |-> 0]
    /\ i = 0
    /\ sums = << >>
    /\ todo = {}
    /\ out = ""
    /\ last = [op |-> "none", a |-> 0, b |-> 0, ret |-> 0]
    /\ closure = [x \in Nodes |-> x]
    /\ badIdx = FALSE

InitForest(maxn) ==
    /\ n \in 0 .. maxn
    /\ parent = [x \in Nodes |-> x]
    /\ rank = [x \in Nodes |-> 0]
    /\ i = 0
    /\ sums = << >>
    /\ todo = {}
    /\ out = ""
    /\ last = NoCall
    /\ closure = [x \in Nodes |-> x]
    /\ badIdx = FALSE

\* The process faults: a dereference of a pointer to no node, or a trap.
Crash == pc' = "crashed"

\* find(nodes[a]) called by a client of the forest, a a valid index.
FindCall(a) ==
    LET f == find(parent, a)
    IN  /\ parent' = f.parent
        /\ last' = [op |-> "find", a |-> a, b |-> a, ret |-> f.ret]
        /\ UNCHANGED <<n, m, rank, money, pc, sums, todo, out, traps, sim>>

\* nodeUnion(nodes[a], nodes[b]): both array reads come first, then the
\* body; a pointer to no node faults in the find that dereferences it.
\* The call is recorded in last when traced.
UnionCall(a, b, traced) ==
    \E pa \in NodesAt(a), pb \in NodesAt(b) :
        /\ IF pa = BAD
           THEN /\ Crash
                /\ last' = IF traced
                           THEN [op |-> "union", a |-> a, b |-> b, ret |-> BAD]
                           ELSE last
                /\ UNCHANGED <<parent, rank>>
           ELSE IF pb = BAD
           THEN /\ Crash
                /\ last' = IF traced
                           THEN [op |-> "union", a |-> a, b |-> b, ret |-> BAD]
                           ELSE last
                /\ parent' = find(parent, pa).parent
                /\ UNCHANGED rank
           ELSE LET u == nodeUnion(parent, rank, pa, pb)
                IN  /\ parent' = u.parent
                    /\ rank' = u.rank
                    /\ last' = IF traced
                               THEN [op |-> "union", a |-> a, b |-> b, ret |-> u.merged]
                               ELSE last
                    /\ UNCHANGED pc
        /\ UNCHANGED <<n, m, money, sums, todo, out, traps, sim>>

\* query(nodes[a], nodes[b]) called by a client of the forest, a and b
\* valid indices.
QueryCall(a, b) ==
    \E aFirst \in BOOLEAN :
        LET q == query(parent, a, b, aFirst)
        IN  /\ parent' = q.parent
            /\ last' = [op |-> "query", a |-> a, b |-> b,
                        ret |-> IF q.ret THEN 1 ELSE 0]
            /\ UNCHANGED <<n, m, rank, money, pc, sums, todo, out, traps, sim>>

-----------------------------------------------------------------------------
(* The forest driven by an arbitrary client that keeps to valid indices.   *)

InitApi ==
    /\ InitForest(MaxN)
    /\ m = 0
    /\ money = [x \in Nodes |-> 0]
    /\ traps = FALSE
    /\ sim = SimIdle
    /\ pc = "api"

ApiFind ==
    /\ pc = "api"
    /\ \E a \in Nodes : FindCall(a)
    /\ UNCHANGED <<i, closure, badIdx, traps>>

ApiUnion ==
    /\ pc = "api"
    /\ \E a \in Nodes, b \in Nodes : UnionCall(a, b, TRUE)
    /\ UNCHANGED <<i, closure, badIdx, traps>>

ApiQuery ==
    /\ pc = "api"
    /\ \E a \in Nodes, b \in Nodes : QueryCall(a, b)
    /\ UNCHANGED <<i, closure, badIdx, traps>>

NextForest == ApiFind \/ ApiUnion \/ ApiQuery

SpecForest == InitApi /\ [][NextForest]_vars

-----------------------------------------------------------------------------
(* int arithmetic of main.                                                 *)

\* x + y leaves the range of int.
Overflows(x, y) ==
    \/ y > 0 /\ x > MaxInt - y
    \/ y < 0 /\ x < MinInt - y

\* x + y reduced into the range of int (two's complement wrap-around).
WrapAdd(x, y) ==
    IF y > 0 /\ x > MaxInt - y THEN (x + MinInt) + (y + MinInt)
    ELSE IF y < 0 /\ x < MinInt - y THEN (x - MinInt) + (y - MinInt)
    ELSE x + y

\* accumulate with = in place of +=: the total is the last value seen.
accumulateAssign(p, s, x, v, trapping) ==
    LET f == find(p, x)
    IN  [parent  |-> f.parent,
         sums    |-> [k \in DOMAIN s \cup {f.ret} |-> IF k = f.ret THEN v ELSE s[k]],
         trapped |-> FALSE]

\* The body of the loop of lines 60-66 for node x holding the value v:
\* look up the representative, create its total if absent, add v to it.
\* An addition that leaves the range of int is undefined: the build either
\* traps (the total is left as it was) or wraps around.
accumulate(p, s, x, v, trapping) ==
    LET f      == find(p, x)
        key    == f.ret
        old    == IF key \in DOMAIN s THEN s[key] ELSE 0
        put(w) == [k \in DOMAIN s \cup {key} |-> IF k = key THEN w ELSE s[k]]
    IN  [parent  |-> f.parent,
         sums    |-> IF ~Overflows(old, v) THEN put(old + v)
                     ELSE IF trapping THEN put(old)
                     ELSE put(WrapAdd(old, v)),
         trapped |-> Overflows(old, v) /\ trapping]

-----------------------------------------------------------------------------
(* main: read n, m and the money of each node, apply the m union requests, *)
(* add up the money per representative, print the verdict.                 *)

Init ==
    /\ InitForest(MaxEntities)
    /\ m \in 0 .. MaxM
    /\ money \in [Nodes -> Values]
    /\ traps \in BOOLEAN
    /\ sim = SimIdle
    /\ pc = "unions"

\* The closure of the requested pairs after the pair (a, b) is added.
Related(c, a, b) ==
    LET lo == IF c[a] < c[b] THEN c[a] ELSE c[b]
    IN  [x \in Nodes |-> IF c[x] = c[a] \/ c[x] = c[b] THEN lo ELSE c[x]]

\* One turn of the loop of lines 53-56: read a and b, call nodeUnion.
ReadUnion ==
    /\ pc = "unions"
    /\ i < m
    /\ \E a \in Idx, b \in Idx :
        /\ UnionCall(a, b, FALSE)
        /\ badIdx' = (badIdx \/ a \notin Nodes \/ b \notin Nodes)
        /\ closure' = IF a \in Nodes /\ b \in Nodes
                      THEN Related(closure, a, b)
                      ELSE closure
    /\ i' = i + 1

\* The loop of lines 53-56 ends; sums is declared empty (line 58).
UnionsDone ==
    /\ pc = "unions"
    /\ i = m
    /\ pc' = "accumulate"
    /\ i' = 0
    /\ sums' = << >>
    /\ UNCHANGED <<n, m, parent, rank, money, todo, out, last, closure, badIdx, traps, sim>>

\* One turn of the loop of lines 60-66; a trap ends the process.
Accumulate ==
    /\ pc = "accumulate"
    /\ i < n
    /\ LET t == accumulate(parent, sums, i, money[i], traps)
       IN  /\ parent' = t.parent
           /\ sums' = t.sums
           /\ IF t.trapped
              THEN Crash /\ UNCHANGED i
              ELSE i' = i + 1 /\ UNCHANGED pc
    /\ UNCHANGED <<n, m, rank, money, todo, out, last, closure, badIdx, traps, sim>>

\* The loop of lines 60-66 ends; the loop of line 68 starts over sums.
AccumulateDone ==
    /\ pc = "accumulate"
    /\ i = n
    /\ pc' = "inspect"
    /\ todo' = DOMAIN sums
    /\ UNCHANGED <<n, m, parent, rank, money, i, sums, out, last, closure, badIdx, traps, sim>>

\* One turn of the loop of lines 68-73, in the unspecified iteration order
\* of the unordered_map.
Inspect ==
    /\ pc = "inspect"
    /\ \E el \in todo :
         IF sums[el] # 0
         THEN /\ out' = "IMPOSSIBLE"
              /\ pc' = "done"
              /\ UNCHANGED todo
         ELSE /\ todo' = todo \ {el}
              /\ UNCHANGED <<out, pc>>
    /\ UNCHANGED <<n, m, parent, rank, money, i, sums, last, closure, badIdx, traps, sim>>

\* The loop of line 68 ends without a nonzero total (line 75).
InspectDone ==
    /\ pc = "inspect"
    /\ todo = {}
    /\ out' = "POSSIBLE"
    /\ pc' = "done"
    /\ UNCHANGED <<n, m, parent, rank, money, i, sums, todo, last, closure, badIdx, traps, sim>>

Next ==
    \/ ReadUnion
    \/ UnionsDone
    \/ Accumulate
    \/ AccumulateDone
    \/ Inspect
    \/ InspectDone

Spec == Init /\ [][Next]_vars

-----------------------------------------------------------------------------
(* main on well-formed input: every requested index is in [0, n).  The     *)
(* forests are larger than under Spec, so that main meets chains of two    *)
(* links.                                                                  *)

InitValid ==
    /\ InitForest(MaxValidN)
    /\ m \in 0 .. MaxValidM
    /\ n = 0 => m = 0
    /\ money \in [Nodes -> ValidValues]
    /\ traps \in BOOLEAN
    /\ sim = SimIdle
    /\ pc = "unions"

\* One turn of the loop of lines 53-56 on a pair of valid indices.
ReadValidUnion ==
    /\ pc = "unions"
    /\ i < m
    /\ \E a \in Nodes, b \in Nodes :
        /\ UnionCall(a, b, FALSE)
        /\ closure' = Related(closure, a, b)
    /\ i' = i + 1
    /\ UNCHANGED badIdx

NextValid ==
    \/ ReadValidUnion
    \/ UnionsDone
    \/ Accumulate
    \/ AccumulateDone
    \/ Inspect
    \/ InspectDone

SpecValid == InitValid /\ [][NextValid]_vars

-----------------------------------------------------------------------------
(* main as a function of its input: the values mny, the sequence seq of    *)
(* requested pairs and the build's treatment of signed overflow.           *)

\* The loop of lines 53-56 over the requests seq.
RECURSIVE ApplyUnions(_, _, _)
ApplyUnions(p, r, seq) ==
    IF seq = << >> THEN [parent |-> p, rank |-> r]
    ELSE LET u == nodeUnion(p, r, Head(seq)[1], Head(seq)[2])
         IN  ApplyUnions(u.parent, u.rank, Tail(seq))

\* The loop of lines 60-66 from index k on.
RECURSIVE AccumulateAll(_, _, _, _, _)
AccumulateAll(p, s, k, mny, trapping) ==
    IF k = n THEN [parent |-> p, sums |-> s, trapped |-> FALSE]
    ELSE LET t == accumulate(p, s, k, mny[k], trapping)
         IN  IF t.trapped THEN t
             ELSE AccumulateAll(t.parent, t.sums, k + 1, mny, trapping)

\* The loop of lines 68-73 over the keys left, and line 75.
RECURSIVE InspectAll(_, _)
InspectAll(s, keys) ==
    IF keys = {} THEN "POSSIBLE"
    ELSE LET el == CHOOSE k \in keys : TRUE
         IN  IF s[el] # 0 THEN "IMPOSSIBLE" ELSE InspectAll(s, keys \ {el})

\* What a run of main ends with: its output, or "crashed".
RunMain(mny, seq, trapping) ==
    LET f == ApplyUnions([x \in Nodes |-> x], [x \in Nodes |-> 0], seq)
        t == AccumulateAll(f.parent, << >>, 0, mny, trapping)
    IN  IF t.trapped THEN "crashed" ELSE InspectAll(t.sums, DOMAIN t.sums)

-----------------------------------------------------------------------------
(* ants.cpp: an element of an empty vector is read and printed, then N     *)
(* test cases are read; for each, the earliest and the latest time at      *)
(* which the last ant has fallen off a pole of length l are printed.       *)

\* The index read by line 23.
OobIndex == 101

\* What a read outside the storage of a vector may yield, if it yields.
Garbage == {0, MinInt}

min(a, b) == IF a < b THEN a ELSE b

max(a, b) == IF a < b THEN b ELSE a

\* The loop of lines 42-44 over the positions s, longest so far given.
RECURSIVE ScanShortest(_, _, _)
ScanShortest(l, s, longest) ==
    IF s = << >> THEN longest
    ELSE ScanShortest(l, Tail(s), max(longest, min(Head(s), l - Head(s))))

\* The loop of lines 52-54 over the positions s, longest so far given.
RECURSIVE ScanLongest(_, _, _)
ScanLongest(l, s, longest) ==
    IF s = << >> THEN longest
    ELSE ScanLongest(l, Tail(s), max(longest, max(Head(s), l - Head(s))))

\* The variables of moneymatters.cpp, which ants.cpp does not touch.
mmVars == <<n, m, parent, rank, money, pc, i, sums, todo, out, last, closure,
            badIdx, traps>>

\* The process at the first statement of main.
SimStart == [SimIdle EXCEPT !.pc = "start"]

InitAnts ==
    /\ InitForest(0)
    /\ m = 0
    /\ money = [x \in Nodes |-> 0]
    /\ traps = FALSE
    /\ pc = "idle"
    /\ sim = SimStart

\* main without lines 22-23.
OobReadSkipped ==
    /\ sim.pc = "start"
    /\ sim' = [sim EXCEPT !.pc = "readN"]
    /\ UNCHANGED mmVars

\* Lines 22-23: arr is empty and arr[101] is read and printed.  operator[]
\* checks nothing: the read is outside the storage of arr, which is
\* undefined; the process faults, or some value is read and printed.
OobRead ==
    /\ sim.pc = "start"
    /\ IF OobIndex < Len(sim.arr)
       THEN sim' = [sim EXCEPT !.out = Append(@, <<sim.arr[OobIndex + 1]>>),
                               !.pc = "readN"]
       ELSE \/ sim' = [sim EXCEPT !.oob = TRUE, !.pc = "crashed"]
            \/ \E g \in Garbage :
                   sim' = [sim EXCEPT !.oob = TRUE,
                                      !.out = Append(@, <<g>>),
                                      !.pc = "readN"]
    /\ UNCHANGED mmVars

\* Lines 25-26.
ReadN ==
    /\ sim.pc = "readN"
    /\ \E cases \in 0 .. MaxCases :
           sim' = [sim EXCEPT !.N = cases, !.i = 0, !.pc = "case"]
    /\ UNCHANGED mmVars

\* Lines 27-31: a further test case starts, l and n are read.
ReadCase ==
    /\ sim.pc = "case"
    /\ sim.i < sim.N
    /\ \E len \in 0 .. MaxLen, cnt \in 0 .. MaxAnts :
           sim' = [sim EXCEPT !.l = len, !.n = cnt, !.ants = << >>,
                              !.pc = "readPos"]
    /\ UNCHANGED mmVars

\* Line 27 with no test case left: main returns.
CasesDone ==
    /\ sim.pc = "case"
    /\ sim.i >= sim.N
    /\ sim' = [sim EXCEPT !.pc = "done"]
    /\ UNCHANGED mmVars

\* One turn of the loop of lines 32-36.
ReadPos ==
    /\ sim.pc = "readPos"
    /\ Len(sim.ants) < sim.n
    /\ \E pos \in 0 .. MaxLen :
           sim' = [sim EXCEPT !.ants = Append(@, pos)]
    /\ UNCHANGED mmVars

\* Lines 38-56: the two scans over the positions read.
Compute ==
    /\ sim.pc = "readPos"
    /\ Len(sim.ants) >= sim.n
    /\ sim' = [sim EXCEPT !.shortestT = ScanShortest(sim.l, sim.ants, 0),
                          !.longestT = ScanLongest(sim.l, sim.ants, 0),
                          !.pc = "output"]
    /\ UNCHANGED mmVars

\* Line 59 and the increment of line 27.
Output ==
    /\ sim.pc = "output"
    /\ sim' = [sim EXCEPT !.out = Append(@, <<sim.shortestT, sim.longestT>>),
                          !.i = @ + 1,
                          !.pc = "case"]
    /\ UNCHANGED mmVars

NextAnts ==
    \/ OobRead
    \/ ReadN
    \/ ReadCase
    \/ CasesDone
    \/ ReadPos
    \/ Compute
    \/ Output

SpecAnts == InitAnts /\ [][NextAnts]_vars

-----------------------------------------------------------------------------
(* Vocabulary of the properties.                                           *)

\* The node reached from x by following at most n parent links.
RECURSIVE Walk(_, _, _)
Walk(p, x, k) == IF k = 0 \/ p[x] = x THEN x ELSE Walk(p, p[x], k - 1)

Root(p, x) == Walk(p, x, n)

IsRoot(p, x) == p[x] = x

Roots(p) == {x \in Nodes : IsRoot(p, x)}

\* The members of x's group: the nodes whose parent chain ends where x's does.
Group(p, x) == {y \in Nodes : Root(p, y) = Root(p, x)}

\* The root of every node.
RootMap(p) == [x \in Nodes |-> Root(p, x)]

\* x and y are in one group: their parent chains end at the same node.
InOneGroup(p, x, y) == Root(p, x) = Root(p, y)

\* same_group(x, y) as the code answers it.
SameGroup(p, x, y) == query(p, x, y, TRUE).ret

\* The call c was made with valid indices.
ValidCall(c) == c.a \in Nodes /\ c.b \in Nodes

\* Some node is two parent links away from its root.
DeepChain(p) == \E x \in Nodes : p[x] # x /\ p[p[x]] # p[x]

-----------------------------------------------------------------------------
\* C2: in every reachable state the parent links form a forest: every
\* parent is a node, and following parent links from any node reaches, in
\* at most n steps, a node that is its own parent (no cycle but the
\* self-loops of the roots).
ForestAcyclic ==
    /\ parent \in [Nodes -> Nodes]
    /\ \A x \in Nodes : IsRoot(parent, Root(parent, x))

\* C2 witness: a tree of height two has been built by unions.
ForestAcyclicWitness ==
    /\ pc = "api"
    /\ last.op = "union"
    /\ DeepChain(parent)

\* C3: a union on valid indices that returns leaves a and b in one group
\* (query answers true), and the new partition is the old one with the
\* groups of a and b replaced by their union: two nodes share their root
\* afterwards exactly if they did before or both lay in the group of a or
\* the group of b.
UnionMergesGroups ==
    [][(last'.op = "union" /\ ValidCall(last') /\ pc' = "api") =>
        LET a   == last'.a
            b   == last'.b
            ab  == Group(parent, a) \cup Group(parent, b)
            old == RootMap(parent)
            new == RootMap(parent')
        IN  /\ SameGroup(parent', a, b)
            /\ \A x \in Nodes, y \in Nodes :
                 (new[x] = new[y]) <=>
                    (old[x] = old[y] \/ (x \in ab /\ y \in ab))]_vars

\* C3 witness: a union on two non-root nodes joined two groups into one
\* of four members.
UnionMergesGroupsWitness ==
    /\ last.op = "union" /\ ValidCall(last) /\ last.ret = 1
    /\ Cardinality(Group(parent, last.a)) = 4
    /\ ~IsRoot(parent, last.a) /\ ~IsRoot(parent, last.b)

\* C4: two nodes that are in one group stay in one group in every later
\* state, whatever call is made: no step takes apart two nodes that share
\* their root, and a same_group answered true is answered true after it.
MonotonicCoarsening ==
    [][/\ parent' # parent =>
            LET old == RootMap(parent)
                new == RootMap(parent')
            IN  \A a \in Nodes, b \in Nodes :
                   (old[a] = old[b]) => (new[a] = new[b])
       /\ (last.op = "query" /\ ValidCall(last) /\ last.ret = 1 /\ pc' = "api") =>
            SameGroup(parent', last.a, last.b)]_vars

\* C4 witness: a union merged two groups when a group of two or more
\* already existed and a path was compressed on the way.
MonotonicCoarseningWitness ==
    /\ last.op = "union" /\ last.ret = 1
    /\ \E x \in Nodes : Cardinality(Group(parent, x)) >= 3
    /\ \E x \in Nodes, y \in Nodes : ~InOneGroup(parent, x, y)

\* C5: in every reachable state query answers as an equivalence relation:
\* reflexive, symmetric and transitive, in either evaluation order of its
\* two finds and with each query run on the forest the previous one left;
\* its answer is that the two parent chains end at the same node.
SameGroupEquivalence ==
    \A o \in BOOLEAN :
      /\ \A a \in Nodes : query(parent, a, a, o).ret
      /\ \A a \in Nodes, b \in Nodes :
           LET q1 == query(parent, a, b, o)
           IN  /\ q1.ret = query(parent, b, a, o).ret
               /\ q1.ret = query(q1.parent, b, a, o).ret
               /\ q1.ret = query(parent, a, b, ~o).ret
               /\ q1.ret = InOneGroup(parent, a, b)
               /\ \A c \in Nodes :
                    LET q2 == query(q1.parent, b, c, o)
                    IN  (q1.ret /\ q2.ret) => query(q2.parent, a, c, o).ret

\* C5 witness: a query answered true for two distinct non-root nodes.
SameGroupEquivalenceWitness ==
    /\ last.op = "query" /\ ValidCall(last) /\ last.ret = 1
    /\ last.a # last.b
    /\ ~IsRoot(parent, last.a) /\ ~IsRoot(parent, last.b)
    /\ Cardinality(Group(parent, last.a)) >= 3

\* C6: from every reachable state, for all valid a and b, a second
\* union(a, b) right after the first changes no root of any node and no
\* rank; and a union of two nodes of one group changes no root, no rank and
\* no group.
UnionIdempotent ==
    \A a \in Nodes, b \in Nodes :
        LET u1 == nodeUnion(parent, rank, a, b)
            u2 == nodeUnion(u1.parent, u1.rank, a, b)
        IN  /\ u2.rank = u1.rank
            /\ \A x \in Nodes :
                 /\ find(u2.parent, x).ret = find(u1.parent, x).ret
                 /\ Root(u2.parent, x) = Root(u1.parent, x)
            /\ u2.merged = 0
            /\ Root(parent, a) = Root(parent, b) =>
                 /\ u1.rank = rank
                 /\ u1.merged = 0
                 /\ \A x \in Nodes : Root(u1.parent, x) = Root(parent, x)

\* C6 witness: a union was called on two distinct nodes already in one
\* group and returned early.
UnionIdempotentWitness ==
    /\ last.op = "union" /\ ValidCall(last) /\ last.ret = 0
    /\ last.a # last.b
    /\ \E x \in Nodes : rank[x] >= 1

\* C7: a find on a valid index returns the root its argument's parent chain
\* ended at before the call, and leaves every node's root, the set of roots
\* and all ranks as they were.
FindPreservesGroups ==
    [][(last'.op = "find" /\ ValidCall(last')) =>
        /\ last'.ret = Root(parent, last'.a)
        /\ \A x \in Nodes : Root(parent', x) = Root(parent, x)
        /\ Roots(parent') = Roots(parent)
        /\ rank' = rank]_vars

\* C7 witness: a find returned the root for a non-root argument that has
\* a child of its own (a chain of two links ended at the argument's root).
FindPreservesGroupsWitness ==
    /\ last.op = "find" /\ ValidCall(last)
    /\ last.ret # last.a
    /\ parent[last.a] = last.ret
    /\ \E x \in Nodes : parent[x] = last.a

\* C9: a union that joins two distinct roots ra and rb: if their ranks
\* differ the one of lower rank becomes a child of the other and no rank
\* changes; if they are equal one becomes the child of the other, whose
\* rank grows by one; every other root stays a root and no other rank
\* changes.
Attach(child, top, bump) ==
    /\ parent'[child] = top
    /\ parent'[top] = top
    /\ rank' = IF bump THEN [rank EXCEPT ![top] = @ + 1] ELSE rank

UnionByRank ==
    [][(last'.op = "union" /\ ValidCall(last') /\ pc' = "api"
          /\ Root(parent, last'.a) # Root(parent, last'.b)) =>
        LET ra == Root(parent, last'.a)
            rb == Root(parent, last'.b)
        IN  /\ rank[ra] < rank[rb] => Attach(ra, rb, FALSE)
            /\ rank[rb] < rank[ra] => Attach(rb, ra, FALSE)
            /\ rank[ra] = rank[rb] => Attach(ra, rb, TRUE) \/ Attach(rb, ra, TRUE)
            /\ \A x \in Roots(parent) \ {ra, rb} : parent'[x] = x
            /\ Cardinality(Roots(parent')) = Cardinality(Roots(parent)) - 1]_vars

\* C9 witness: a union attached a root of rank 0 under a root of rank 1
\* given as its second argument.
UnionByRankWitness ==
    /\ last.op = "union" /\ ValidCall(last) /\ last.ret = 1
    /\ IsRoot(parent, Root(parent, last.b))
    /\ rank[Root(parent, last.b)] = 1
    /\ parent[last.a] = Root(parent, last.b)
    /\ rank[last.a] = 0
    /\ last.a # Root(parent, last.b)

\* C10: the call in which main first passes an index outside [0, n) fails
\* (with IndexOutOfRange; a fault of the process is counted as failing too)
\* and leaves every parent link and every rank as it was.
BadIndexRejected ==
    [][(~badIdx /\ badIdx') =>
        /\ pc' \in {"IndexOutOfRange", "crashed"}
        /\ parent' = parent
        /\ rank' = rank]_vars

-----------------------------------------------------------------------------
(* Exact sums of int values, kept as hi * 2^31 + lo with 0 <= lo < 2^31.   *)

Wide(v) == IF v >= 0 THEN [hi |-> 0, lo |-> v] ELSE [hi |-> -1, lo |-> v - MinInt]

WideAdd(w1, w2) ==
    IF w1.lo > MaxInt - w2.lo
    THEN [hi |-> w1.hi + w2.hi + 1, lo |-> (w1.lo - MaxInt) + (w2.lo - 1)]
    ELSE [hi |-> w1.hi + w2.hi, lo |-> w1.lo + w2.lo]

RECURSIVE WideSum(_)
WideSum(S) ==
    IF S = {} THEN [hi |-> 0, lo |-> 0]
    ELSE LET x == CHOOSE y \in S : TRUE
         IN  WideAdd(Wide(money[x]), WideSum(S \ {x}))

\* The values of the nodes of S add up to exactly zero.
SumsToZero(S) == WideSum(S) = [hi |-> 0, lo |-> 0]

\* The equivalence class of x in the closure of the requested pairs.
Class(x) == {y \in Nodes : closure[y] = closure[x]}

AllClassesZero == \A x \in Nodes : SumsToZero(Class(x))

\* Adding the values of S to acc in increasing index order never leaves
\* the range of int.
RECURSIVE RunningFits(_, _)
RunningFits(S, acc) ==
    IF S = {} THEN TRUE
    ELSE LET x == CHOOSE y \in S : \A z \in S : y <= z
         IN  /\ ~Overflows(acc, money[x])
             /\ RunningFits(S \ {x}, acc + money[x])

\* In every class the running total, in index order, stays an int.
TotalsFit == \A x \in Nodes : RunningFits(Class(x), 0)

\* C1 as claimed: on valid requests main prints POSSIBLE exactly if the
\* values of every equivalence class of the closure of the requested pairs
\* sum to zero, and IMPOSSIBLE exactly if those of some class do not.
VerdictIffZeroSums ==
    (pc = "done" /\ ~badIdx) =>
        /\ out = "POSSIBLE" <=> AllClassesZero
        /\ out = "IMPOSSIBLE" <=> ~AllClassesZero

\* C1 as amended: the same, for values whose running total, within every
\* class and in index order, stays in the range of int; main then reaches
\* its verdict without a fault.
VerdictIffZeroSumsInRange ==
    (~badIdx /\ pc \in {"done", "crashed"} /\ TotalsFit) =>
        /\ pc = "done"
        /\ out = "POSSIBLE" <=> AllClassesZero
        /\ out = "IMPOSSIBLE" <=> ~AllClassesZero

\* C1 witness: POSSIBLE was printed for a forest with a class of several
\* nodes, one of them holding 1, next to a singleton class.
VerdictWitness ==
    /\ pc = "done" /\ ~badIdx /\ TotalsFit
    /\ out = "POSSIBLE"
    /\ \E x \in Nodes, y \in Nodes :
         /\ x # y /\ closure[x] = closure[y] /\ money[x] = 1
         /\ \E z \in Nodes : Cardinality(Class(z)) = 1

-----------------------------------------------------------------------------
\* What the run ended with.
Outcome == IF pc = "crashed" THEN "crashed" ELSE out

\* A sequence of requests that generates the closure c: every node that is
\* not the least of its class is paired with that least node, in index order.
RECURSIVE CanonRequests(_, _)
CanonRequests(c, k) ==
    IF k = n THEN << >>
    ELSE IF c[k] = k THEN CanonRequests(c, k + 1)
    ELSE << <<c[k], k>> >> \o CanonRequests(c, k + 1)

\* The same input with the entities renamed by the permutation pi: main
\* then scans the entities, and meets the requests, in another order.
RenamedMoney(pi) == [y \in Nodes |-> money[CHOOSE x \in Nodes : pi[x] = y]]

RenamedRequests(seq, pi) ==
    [k \in 1 .. Len(seq) |-> <<pi[seq[k][1]], pi[seq[k][2]]>>]

\* Every run of main on the values of this run, on requests generating the
\* partition this run's requests generate, with the entities in any order,
\* ends as this run ended.
SameAsRenamedRuns ==
    \A pi \in Permutations(Nodes) :
        RunMain(RenamedMoney(pi), RenamedRequests(CanonRequests(closure, 0), pi),
                traps) = Outcome

\* The exact sum of the values of S is an int.
FitsInt(S) == WideSum(S).hi \in {-1, 0}

\* Within every class the values of every subset add up to an int: no
\* running total leaves the range of int, in whatever order it is built.
SubsetsFit == \A x \in Nodes : \A S \in SUBSET Class(x) : FitsInt(S)

\* C8 as claimed: the verdict of a run on valid requests is the verdict of
\* every other run on the same values whose requests generate the same
\* partition, whatever the order of the requests and of the entities (the
\* order in which the totals are inspected is free in every run).
OrderIndependent ==
    (pc \in {"done", "crashed"} /\ ~badIdx) => SameAsRenamedRuns

\* C8 as amended: the same, when no running total can leave the range of
\* int or when the build wraps signed overflow around.
OrderIndependentInRange ==
    (pc \in {"done", "crashed"} /\ ~badIdx /\ (SubsetsFit \/ ~traps)) =>
        SameAsRenamedRuns

\* C8 witness: a verdict was reached for a class of three nodes with
\* different values whose representative is not the one the canonical
\* requests produce.
OrderIndependentWitness ==
    /\ pc = "done" /\ ~badIdx /\ SubsetsFit /\ traps
    /\ \E x \in Nodes :
         /\ Cardinality(Class(x)) = 3
         /\ Root(parent, x) # closure[x]
         /\ \E y \in Class(x) : money[y] # money[x]

-----------------------------------------------------------------------------
(* Heights, chains and group sizes.                                        *)

\* The number of parent links from x to the end of its chain, n + 1 if the
\* chain has no end within n links.
RECURSIVE Depth(_, _, _)
Depth(p, x, k) ==
    IF p[x] = x THEN 0
    ELSE IF k = 0 THEN n + 1
    ELSE LET d == Depth(p, p[x], k - 1)
         IN  IF d > n THEN n + 1 ELSE d + 1

\* The nodes on the parent chain of x, x and its root included.
RECURSIVE Chain(_, _, _)
Chain(p, x, k) ==
    IF k = 0 \/ p[x] = x THEN {x} ELSE {x} \cup Chain(p, p[x], k - 1)

\* The height of the tree rooted at r: the longest chain that ends at r.
Height(p, r) ==
    LET ds == {Depth(p, x, n) : x \in Group(p, r)}
    IN  CHOOSE d \in ds : \A e \in ds : e <= d

RECURSIVE Pow2(_)
Pow2(k) == IF k = 0 THEN 1 ELSE 2 * Pow2(k - 1)

\* floor(log2(k)) for k >= 1.
RECURSIVE Log2(_)
Log2(k) == IF k <= 1 THEN 0 ELSE 1 + Log2(k \div 2)

\* No call has been made on the forest since its construction.
Fresh == last.op = "none"

-----------------------------------------------------------------------------
\* C11: the forest as constructed (no operation applied yet) has every
\* entity as its own parent with rank 0; find(i) answers i for every
\* entity i, and same_group(i, j) holds exactly when i = j.
MakeSingletons ==
    Fresh =>
        \A x \in Nodes :
            /\ parent[x] = x
            /\ rank[x] = 0
            /\ find(parent, x).ret = x
            /\ \A y \in Nodes, o \in BOOLEAN :
                   query(parent, x, y, o).ret <=> (x = y)

\* A forest of the largest size on which nothing has been called.
MakeSingletonsWitness == Fresh /\ n = MaxN /\ pc = "api"

-----------------------------------------------------------------------------
\* C13: in every reachable state the rank of every root is an upper bound
\* on the height of the tree below it; path compression lowers heights and
\* leaves ranks alone, so the bound also holds after it.
RankBoundsHeight ==
    \A r \in Roots(parent) : Height(parent, r) <= rank[r]

\* A find has just flattened a tree whose root has rank 2: the height is 1,
\* strictly below the rank.
RankBoundsHeightWitness ==
    /\ last.op = "find"
    /\ last.a # last.ret
    /\ rank[last.ret] = 2
    /\ Height(parent, last.ret) = 1
    /\ Cardinality(Group(parent, last.ret)) = 4

-----------------------------------------------------------------------------
\* C14: find(x) returns the root r of x and leaves every node of the parent
\* chain from x to r, r excepted, with r as its parent; the parent link of
\* every node off that chain, every rank and every money value are as
\* before the call.
FindCompressesChain ==
    [][last'.op = "find" =>
          LET x  == last'.a
              r  == Root(parent, x)
              ch == Chain(parent, x, n) \ {r}
          IN  /\ last'.ret = r
              /\ parent' = [y \in Nodes |-> IF y \in ch THEN r ELSE parent[y]]
              /\ rank' = rank
              /\ money' = money]_vars

\* The children of x.
Children(p, x) == {y \in Nodes : y # x /\ p[y] = x}

\* A find on a non-root has returned, every chain has one link, and a node
\* that once had a child (rank 1) has none left: a chain was compressed.
FindCompressesChainWitness ==
    /\ last.op = "find"
    /\ last.a # last.ret
    /\ ~DeepChain(parent)
    /\ \E y \in Nodes : /\ parent[y] = last.ret
                        /\ rank[y] = 1
                        /\ y # last.ret
                        /\ Children(parent, y) = {}

-----------------------------------------------------------------------------
\* C15: when nodeUnion(a, b) meets two distinct roots of equal rank, the
\* root of b is put under the root of a and the rank of a's root grows by
\* one; breaking the tie the other way gives a different tree over the same
\* partition.
TieGoesToFirst ==
    [][last'.op = "union" =>
          LET ra  == Root(parent, last'.a)
              rb  == Root(parent, last'.b)
              alt == nodeUnionTieSecond(parent, rank, last'.a, last'.b)
          IN  (ra # rb /\ rank[ra] = rank[rb]) =>
                  /\ parent'[rb] = ra
                  /\ parent'[ra] = ra
                  /\ rank' = [rank EXCEPT ![ra] = @ + 1]
                  /\ alt.parent[ra] = rb
                  /\ alt.parent[rb] = rb
                  /\ \A x \in Nodes, y \in Nodes :
                         InOneGroup(parent', x, y) <=>
                             InOneGroup(alt.parent, x, y)]_vars

\* nodeUnion(a, b) has just merged two trees of rank 1: the root now of
\* rank 2 is the one a was under, the other root hangs below it with b.
TieGoesToFirstWitness ==
    /\ last.op = "union"
    /\ last.ret = 1
    /\ rank[Root(parent, last.a)] = 2
    /\ \E c \in Children(parent, Root(parent, last.a)) :
           /\ rank[c] = 1
           /\ c \in Chain(parent, last.b, n)
           /\ c \notin Chain(parent, last.a, n)

-----------------------------------------------------------------------------
\* C16: in every reachable state the group of every root r has at least
\* 2^rank(r) members; hence no rank exceeds floor(log2(n)) and no parent
\* chain has more than floor(log2(n)) links.
RankLogBound ==
    /\ \A r \in Roots(parent) :
           /\ Cardinality(Group(parent, r)) >= Pow2(rank[r])
           /\ rank[r] <= Log2(n)
    /\ \A x \in Nodes : Depth(parent, x, n) <= Log2(n)

\* A root of rank 2 over exactly 2^2 nodes, one of them two links below it:
\* both bounds are met with equality.
RankLogBoundWitness ==
    \E r \in Roots(parent) :
        /\ rank[r] = 2
        /\ Cardinality(Group(parent, r)) = 4
        /\ \E x \in Nodes : Depth(parent, x, n) = 2

-----------------------------------------------------------------------------
\* C17: after every step the rank of the parent of every non-root is
\* strictly greater than the node's own rank; a node that has a parent
\* other than itself is never a root again, and its rank never changes
\* again.
RankGrowsUpward ==
    [][/\ \A x \in Nodes :
              parent'[x] # x => rank'[parent'[x]] > rank'[x]
       /\ \A x \in Nodes :
              parent[x] # x => parent'[x] # x /\ rank'[x] = rank[x]]_vars

\* A node of rank 1 that is no longer a root has been moved by a find to a
\* parent of rank 2, and a union inside the group has just returned.
RankGrowsUpwardWitness ==
    /\ last.op = "union"
    /\ last.ret = 0
    /\ ~DeepChain(parent)
    /\ \E x \in Nodes : /\ parent[x] # x
                        /\ rank[x] = 1
                        /\ rank[parent[x]] = 2
                        /\ Children(parent, x) = {}

-----------------------------------------------------------------------------
(* Termination of main on well-formed input.                               *)

\* The process has ended: main returned, or the process faulted.
Ended == pc \in {"done", "crashed"}

\* An upper bound on the number of steps main has left: the turns left in
\* the loop of lines 53-56, one turn per entity in the loop of lines 60-66,
\* one turn per total in the loop of lines 68-73, and the three loop exits.
StepsLeft ==
    CASE pc = "unions"     -> (m - i) + 1 + n + 1 + n + 1
      [] pc = "accumulate" -> (n - i) + 1 + n + 1
      [] pc = "inspect"    -> Cardinality(todo) + 1
      [] OTHER             -> 0

\* C12: every operation terminates.  From every reachable state every
\* parent chain reaches a root within n links, which bounds the recursion
\* of find and so the two finds of nodeUnion; main always has a next step
\* until it has ended, and each step lowers the bound StepsLeft: the union
\* loop takes m turns, the accumulation one turn per entity, the
\* inspection at most one turn per total.
OperationsTerminate ==
    /\ [](/\ \A x \in Nodes : Depth(parent, x, n) <= n
          /\ StepsLeft >= 0
          /\ Ended \/ ENABLED NextValid)
    /\ [][StepsLeft' < StepsLeft]_vars

\* main has returned after three unions, a pass over four entities of one
\* tree whose chain of two links is compressed, and the inspection of the
\* one total.
OperationsTerminateWitness ==
    /\ pc = "done"
    /\ out = "IMPOSSIBLE"
    /\ TotalsFit
    /\ n = MaxValidN
    /\ m = MaxValidM
    /\ Cardinality(DOMAIN sums) = 1
    /\ \E x \in Nodes : rank[x] = 1 /\ parent[x] # x /\ Children(parent, x) = {}

-----------------------------------------------------------------------------
(* The accumulation pass of main (lines 58-66).                            *)

\* Every parent chain has at most one link.
Flat(p) == \A x \in Nodes : p[p[x]] = p[x]

\* A turn of the pass leaves the set of roots, the ranks and the values.
PassKeepsFrame ==
    /\ Roots(parent') = Roots(parent)
    /\ rank' = rank
    /\ money' = money

\* sums has exactly the roots of p as its keys.
OneTotalPerRoot(p, s) == DOMAIN s = Roots(p)

\* C18 as claimed: the turns of the accumulation pass leave the set of
\* roots, the ranks and the values as they were, and when the pass is over
\* the forest is flat and sums holds one entry per root, equal to the sum
\* of the values of the root's group.
PassFlattensAndSums ==
    [][pc = "accumulate" =>
          /\ PassKeepsFrame
          /\ pc' = "inspect" =>
                 /\ Flat(parent')
                 /\ OneTotalPerRoot(parent', sums')
                 /\ \A r \in Roots(parent') :
                        Wide(sums'[r]) = WideSum(Group(parent', r))]_vars

\* C18 within the range of int: as above, the total of a root being the sum
\* of its group's values when the running total of those values, added in
\* index order, stays within the range of int.
PassFlattensAndSumsInRange ==
    [][pc = "accumulate" =>
          /\ PassKeepsFrame
          /\ pc' = "inspect" =>
                 /\ Flat(parent')
                 /\ OneTotalPerRoot(parent', sums')
                 /\ \A r \in Roots(parent') :
                        RunningFits(Group(parent', r), 0) =>
                            Wide(sums'[r]) = WideSum(Group(parent', r))]_vars

\* The pass is over on a tree of four nodes that had a chain of two links
\* (a node of rank 1 has lost its child): the forest is flat and the one
\* total is the nonzero sum of the four values.
PassFlattensAndSumsWitness ==
    /\ pc = "inspect"
    /\ n = MaxValidN
    /\ Flat(parent)
    /\ \E x \in Nodes : rank[x] = 1 /\ parent[x] # x /\ Children(parent, x) = {}
    /\ \E r \in Roots(parent) :
           /\ Group(parent, r) = Nodes
           /\ RunningFits(Nodes, 0)
           /\ sums[r] = 4

-----------------------------------------------------------------------------
\* The process of ants.cpp is in the part of main that handles a test case:
\* reading it, computing its two times, printing them.
InTestCase == sim.pc \in {"readPos", "output"}

\* C19: every execution of ants.cpp starts with the read of element 101 of
\* the empty vector arr: until that read has been made nothing has been
\* read from the input or printed, the first step of every execution makes
\* it, and the process is never in the handling of a test case without
\* having made it.
OobReadComesFirst ==
    /\ [](/\ sim.oob \/ sim = SimStart
          /\ InTestCase => sim.oob)
    /\ [][sim = SimStart => (sim'.oob /\ sim'.N = 0 /\ sim'.ants = << >>)]_vars

\* A build on which the read yields a value: the value was printed and the
\* times of a test case with two ants have been computed after it.
OobReadComesFirstWitness ==
    /\ sim.oob
    /\ sim.pc = "output"
    /\ Len(sim.out) = 1
    /\ Len(sim.ants) = 2
    /\ sim.shortestT < sim.longestT

=============================================================================
